---- MODULE Spec2Model ----
(***************************************************************************)
(* klikvoorkamers-notifier, src/main.py: the polling / apply / notify      *)
(* control loop.                                                           *)
(*                                                                         *)
(* The program is one sequential thread.  Each action below is one step    *)
(* of that thread: one HTTP request (or one send_message) together with    *)
(* all the code that runs up to the next request.  pc is the position of   *)
(* the thread.  The answer of the remote side (request succeeds or raises, *)
(* loggedIn, action, success, the fetched list) is the action's input.     *)
(*                                                                         *)
(* A listing is modelled by its "id" field: the other fields (urlKey,      *)
(* totalRent) only enter the message text.  listings_data and              *)
(* listings_to_apply are sequences, so an id can occur more than once.     *)
(* A configured recipient is an entry of the chat_ids list.                *)
(*                                                                         *)
(* Only the outcomes main.py handles are modelled: a request either        *)
(* returns a well-formed response or raises RequestException, and          *)
(* send_message either returns or raises TelegramError.                    *)
(***************************************************************************)
EXTENDS Integers, Sequences, FiniteSets, TLC

\* ---- bounds of the model -------------------------------------------------
NumIds == 2        \* listing ids the site can serve
MaxFetch == 2      \* longest result list of one listings API response
MaxChats == 2      \* longest chat_ids list
CountCap == 2      \* the history counters saturate here

Ids == 1..NumIds
Chats == 1..MaxChats

VARIABLES
    pc,                 \* position of the driver thread
    known_listings,     \* main.py:236, the in-memory set of known ids
    settings_listings,  \* settings["listings"] as last written to variables.yml
    chat_ids,           \* main.py:238/249, the recipient list
    listings_data,      \* main.py:159, result list of the current cycle
    listings_to_apply,  \* main.py:160
    listing,            \* index of the loop of main.py:182 in listings_to_apply
    chat_id,            \* index of the loop of main.py:80 in chat_ids
    \* ---- history of the current cycle (reset when the cycle starts) ----
    known0,             \* known_listings as passed to check_for_new_listings
    cycleError,         \* the request whose RequestException aborted the cycle
    loggedIn,           \* answer of the login POST: "none", "true", "false"
    action,             \* reactionData.action of the current listing
    success,            \* "success" of the reaction POST of the current listing
    applyLog,           \* what apply_for_new_listing logged for the current listing
    applyRequests,      \* requests issued by apply_for_new_listing for the current listing
    loginRequests,      \* login-config / login requests issued in this cycle
    cycApplied,         \* id -> calls of apply_for_new_listing in this cycle
    cycSent,            \* id -> chat -> calls of send_message in this cycle
    applyErrAt,         \* index of the first listing whose apply raised, 0 if none
    sendErrAt,          \* <<index, chat>> of the first send_message that raised
    \* ---- history of the process run ----
    applied,            \* id -> calls of apply_for_new_listing, saturating
    sent                \* id -> chat -> calls of send_message, saturating

vars == <<pc, known_listings, settings_listings, chat_ids, listings_data,
          listings_to_apply, listing, chat_id, known0, cycleError, loggedIn,
          action, success, applyLog, applyRequests, loginRequests, cycApplied,
          cycSent, applyErrAt, sendErrAt, applied, sent>>

cycleHist == <<known0, cycleError, loggedIn, loginRequests, cycApplied, cycSent,
               applyErrAt, sendErrAt>>
applyHist == <<action, success, applyLog, applyRequests>>
runHist == <<applied, sent>>
locals == <<listings_data, listings_to_apply, listing, chat_id>>

\* ---- helpers --------------------------------------------------------------
Bump(n) == IF n < CountCap THEN n + 1 ELSE CountCap

SeqsUpTo(S, n) == UNION {[1..k -> S] : k \in 0..n}

Range(s) == {s[i] : i \in 1..Len(s)}

NoCounts == [i \in Ids |-> 0]
NoSends == [i \in Ids |-> [c \in Chats |-> 0]]

\* ---- the diff of check_for_new_listings (main.py:160-168) -----------------
\* The loop over listings_data from position i on: an id absent from the known
\* set is appended to listings_to_apply and added to the known set at once, so
\* a later entry with the same id finds it known.
\* Mutant: the known set is rebuilt from the current result list, which
\* evicts every id the site no longer serves.
DiffLoopEvicts(data, i, known, toApply) ==
    [known_listings |-> Range(data),
     listings_to_apply |-> SelectSeq(data, LAMBDA x : x \notin known)]

\* Mutant: known_listings.add(listing_id) is forgotten.
RECURSIVE DiffLoopNoAdd(_, _, _, _)
DiffLoopNoAdd(data, i, known, toApply) ==
    IF i > Len(data)
    THEN [known_listings |-> known, listings_to_apply |-> toApply]
    ELSE IF data[i] \notin known
         THEN DiffLoopNoAdd(data, i + 1, known, Append(toApply, data[i]))
         ELSE DiffLoopNoAdd(data, i + 1, known, toApply)

\* Mutant: the membership test is inverted (`in` for `not in`).
RECURSIVE DiffLoopInverted(_, _, _, _)
DiffLoopInverted(data, i, known, toApply) ==
    IF i > Len(data)
    THEN [known_listings |-> known, listings_to_apply |-> toApply]
    ELSE IF data[i] \in known
         THEN DiffLoopInverted(data, i + 1, known \cup {data[i]},
                               Append(toApply, data[i]))
         ELSE DiffLoopInverted(data, i + 1, known, toApply)

\* Mutant: the new ids are added to the known set only after the loop.
DiffLoopAddsLate(data, i, known, toApply) ==
    [known_listings |-> known \cup Range(data),
     listings_to_apply |-> SelectSeq(data, LAMBDA x : x \notin known)]

RECURSIVE DiffLoop(_, _, _, _)
DiffLoop(data, i, known, toApply) ==
    IF i > Len(data)
    THEN [known_listings |-> known, listings_to_apply |-> toApply]
    ELSE IF data[i] \notin known
         THEN DiffLoop(data, i + 1, known \cup {data[i]}, Append(toApply, data[i]))
         ELSE DiffLoop(data, i + 1, known, toApply)

Diff(known, data) == DiffLoop(data, 1, known, <<>>)

\* ---- the state after construction (main.py:233-250) -----------------------
Init ==
    /\ pc = "warmup"
    /\ known_listings \in SUBSET Ids
    /\ settings_listings = known_listings
    /\ chat_ids \in {[i \in 1..n |-> i] : n \in 0..MaxChats}
    /\ listings_data = <<>>
    /\ listings_to_apply = <<>>
    /\ listing = 0
    /\ chat_id = 0
    /\ known0 = known_listings
    /\ cycleError = "none"
    /\ loggedIn = "none"
    /\ action = "none"
    /\ success = "none"
    /\ applyLog = "none"
    /\ applyRequests = 0
    /\ loginRequests = 0
    /\ cycApplied = NoCounts
    /\ cycSent = NoSends
    /\ applyErrAt = 0
    /\ sendErrAt = <<0, 0>>
    /\ applied = NoCounts
    /\ sent = NoSends

\* ---- check_for_new_listings: fetch and diff (main.py:150-170) -------------
\* Mutant: the handler returns nothing, the driver is left with no known id.
AbortReturnsNothing(request) ==
    /\ cycleError' = request
    /\ pc' = "persist"
    /\ known_listings' = {}

\* Mutant: the handler returns the known set as it was when the cycle began.
AbortRollsBack(request) ==
    /\ cycleError' = request
    /\ pc' = "persist"
    /\ known_listings' = known0

\* Mutant: the exception is not caught and ends the process.
AbortStops(request) ==
    /\ cycleError' = request
    /\ pc' = "stopped"
    /\ UNCHANGED known_listings

\* except RequestException of main.py:192-195: the error is logged and the
\* function returns known_listings as it is; the driver persists and sleeps.
Abort(request) ==
    /\ cycleError' = request
    /\ pc' = "persist"
    /\ UNCHANGED known_listings

\* session.get(LISTINGS_URL), main.py:152-154
GetListingsPage ==
    /\ pc = "warmup"
    /\ \E ok \in BOOLEAN :
          IF ok THEN pc' = "api" /\ UNCHANGED <<cycleError, known_listings>>
                ELSE Abort("warmup")
    /\ UNCHANGED <<settings_listings, chat_ids, locals, known0,
                   loggedIn, loginRequests, cycApplied, cycSent, applyErrAt,
                   sendErrAt, applyHist, runHist>>

\* Mutant: the login is attempted whether or not a listing is new.
AfterDiffAlwaysLogin(toApply) ==
    pc' = "login_cfg"

\* if len(listings_to_apply) > 0, main.py:170
AfterDiff(toApply) ==
    pc' = IF Len(toApply) > 0 THEN "login_cfg" ELSE "persist"

\* session.get(LISTINGS_API_URL) and the diff, main.py:157-170
GetListingsApi ==
    /\ pc = "api"
    /\ \/ /\ Abort("api")
          /\ UNCHANGED <<listings_data, listings_to_apply>>
       \/ \E data \in SeqsUpTo(Ids, MaxFetch) :
             LET d == Diff(known_listings, data) IN
             /\ listings_data' = data
             /\ known_listings' = d.known_listings
             /\ listings_to_apply' = d.listings_to_apply
             /\ AfterDiff(d.listings_to_apply)
             /\ UNCHANGED cycleError
    /\ UNCHANGED <<settings_listings, chat_ids, listing, chat_id, known0,
                   loggedIn, loginRequests, cycApplied, cycSent, applyErrAt,
                   sendErrAt, applyHist, runHist>>

\* ---- check_for_new_listings: login (main.py:171-181) ----------------------
\* session.get(LOGIN_HASH_ID_URL), main.py:172-176
GetLoginConfig ==
    /\ pc = "login_cfg"
    /\ loginRequests' = loginRequests + 1
    /\ \E ok \in BOOLEAN :
          IF ok THEN pc' = "login_post" /\ UNCHANGED <<cycleError, known_listings>>
                ELSE Abort("login_cfg")
    /\ UNCHANGED <<settings_listings, chat_ids, locals, known0,
                   loggedIn, cycApplied, cycSent, applyErrAt, sendErrAt,
                   applyHist, runHist>>

\* Mutant: the loggedIn field of the answer is not looked at.
AfterLoginUnchecked(li) ==
    pc' = "apply_detail" /\ listing' = 1

\* if not response.json()["loggedIn"]: warning, else the loop, main.py:179-182
AfterLogin(li) ==
    IF li THEN pc' = "apply_detail" /\ listing' = 1
          ELSE pc' = "persist" /\ listing' = 0

\* session.post(LOGIN_URL), main.py:177-182
PostLogin ==
    /\ pc = "login_post"
    /\ loginRequests' = loginRequests + 1
    /\ \/ /\ Abort("login_post")
          /\ UNCHANGED <<loggedIn, listing>>
       \/ \E li \in BOOLEAN :
             /\ loggedIn' = IF li THEN "true" ELSE "false"
             /\ AfterLogin(li)
             /\ UNCHANGED <<cycleError, known_listings>>
    /\ UNCHANGED <<settings_listings, chat_ids, listings_data,
                   listings_to_apply, chat_id, known0, cycApplied, cycSent,
                   applyErrAt, sendErrAt, applyHist, runHist>>

\* ---- apply_for_new_listing (main.py:88-129) -------------------------------
\* The listing the loop of main.py:182 is at.
Cur == listings_to_apply[listing]

FirstApplyErr == IF applyErrAt = 0 THEN listing ELSE applyErrAt

\* Mutant: apply_for_new_listing has no try / except of its own, so the
\* exception reaches the handler of main.py:192 and the loop is left.
ApplyRaisedLeavesLoop ==
    /\ applyLog' = "Error"
    /\ applyErrAt' = FirstApplyErr
    /\ pc' = "persist"
    /\ chat_id' = 0
    /\ UNCHANGED cycleError

\* except RequestException of main.py:128-129: the error is logged and the
\* function returns, so main.py:184 sends the notification next.
ApplyRaised ==
    /\ applyLog' = "Error"
    /\ applyErrAt' = FirstApplyErr
    /\ pc' = "notify"
    /\ chat_id' = 1
    /\ UNCHANGED cycleError

\* apply_for_new_listing returns after logging `text`.
ApplyReturns(text) ==
    /\ applyLog' = text
    /\ pc' = "notify"
    /\ chat_id' = 1
    /\ UNCHANGED <<applyErrAt, cycleError>>

\* Mutant: the action field is not looked at, the reaction is always posted.
AfterDetailsAlwaysReacts(a) ==
    /\ pc' = "apply_cfg"
    /\ applyLog' = "none"
    /\ UNCHANGED <<chat_id, applyErrAt, cycleError>>

\* if action == "add": ... else: "Already applied?", main.py:105-106,125-126
AfterDetails(a) ==
    IF a = "add"
    THEN /\ pc' = "apply_cfg"
         /\ applyLog' = "none"
         /\ UNCHANGED <<chat_id, applyErrAt, cycleError>>
    ELSE ApplyReturns("AlreadyApplied")

\* session.post(LISTING_DETAILS_URL), main.py:96-106,125-126
PostListingDetails ==
    /\ pc = "apply_detail"
    /\ cycApplied' = [cycApplied EXCEPT ![Cur] = Bump(@)]
    /\ applied' = [applied EXCEPT ![Cur] = Bump(@)]
    /\ applyRequests' = 1
    /\ success' = "none"
    /\ \/ /\ action' = "none"
          /\ ApplyRaised
       \/ \E a \in {"add", "other"} :
             /\ action' = a
             /\ AfterDetails(a)
    /\ UNCHANGED <<known_listings, settings_listings, chat_ids, listings_data,
                   listings_to_apply, listing, known0, loggedIn, loginRequests,
                   cycSent, sendErrAt, sent>>

\* session.get(REACTION_HASH_ID_URL), main.py:107-116
GetReactionConfig ==
    /\ pc = "apply_cfg"
    /\ applyRequests' = applyRequests + 1
    /\ \/ ApplyRaised
       \/ /\ pc' = "apply_post"
          /\ UNCHANGED <<applyLog, chat_id, applyErrAt, cycleError>>
    /\ UNCHANGED <<known_listings, settings_listings, chat_ids, listings_data,
                   listings_to_apply, listing, known0, loggedIn, loginRequests,
                   cycApplied, cycSent, sendErrAt, action, success, runHist>>

\* if response.json()["success"]: info "Successfully applied", else warning
\* "Something went wrong", main.py:119-123
ReactionLog(s) == IF s THEN "Applied" ELSE "Failed"

\* session.post(REACTION_URL), main.py:117-123
PostReaction ==
    /\ pc = "apply_post"
    /\ applyRequests' = applyRequests + 1
    /\ \/ /\ ApplyRaised
          /\ UNCHANGED success
       \/ \E s \in BOOLEAN :
             /\ success' = IF s THEN "true" ELSE "false"
             /\ ApplyReturns(ReactionLog(s))
    /\ UNCHANGED <<known_listings, settings_listings, chat_ids, listings_data,
                   listings_to_apply, listing, known0, loggedIn, loginRequests,
                   cycApplied, cycSent, sendErrAt, action, runHist>>

\* ---- send_telegram_notification (main.py:58-85) ---------------------------
FirstSendErr(ok) ==
    IF ~ok /\ sendErrAt = <<0, 0>> THEN <<listing, chat_id>> ELSE sendErrAt

\* Mutant: the try / except is around the loop, a failed send ends the loop.
AfterSendBreaks(ok) ==
    /\ chat_id' = IF ok THEN chat_id + 1 ELSE Len(chat_ids) + 1
    /\ pc' = "notify"

\* Mutant: TelegramError is not caught and ends the process.
AfterSendStops(ok) ==
    /\ chat_id' = chat_id + 1
    /\ pc' = IF ok THEN "notify" ELSE "stopped"

\* try / except TelegramError inside the loop, main.py:80-85: whether the send
\* returned or raised, the loop goes on with the next recipient.
AfterSend(ok) ==
    /\ chat_id' = chat_id + 1
    /\ pc' = "notify"

\* await bot.send_message(chat_id=chat_id, text=message), main.py:80-85
SendMessage ==
    /\ pc = "notify"
    /\ chat_id <= Len(chat_ids)
    /\ cycSent' = [cycSent EXCEPT ![Cur][chat_ids[chat_id]] = Bump(@)]
    /\ sent' = [sent EXCEPT ![Cur][chat_ids[chat_id]] = Bump(@)]
    /\ \E ok \in BOOLEAN :
          /\ sendErrAt' = FirstSendErr(ok)
          /\ AfterSend(ok)
    /\ UNCHANGED <<known_listings, settings_listings, chat_ids, listings_data,
                   listings_to_apply, listing, known0, cycleError, loggedIn,
                   loginRequests, cycApplied, applyErrAt, applyHist, applied>>

\* Mutant: the notification is not awaited (a task is started instead of
\* asyncio.run), so the loop of main.py:182 goes on while sends are due.
CloseBotEarly ==
    /\ pc = "notify"
    /\ chat_id' = 0
    /\ IF listing < Len(listings_to_apply)
       THEN pc' = "apply_detail" /\ listing' = listing + 1
       ELSE pc' = "persist" /\ UNCHANGED listing
    /\ UNCHANGED <<known_listings, settings_listings, chat_ids, listings_data,
                   listings_to_apply, cycleHist, applyHist, runHist>>

\* The loop of main.py:80 is over: the bot is closed, asyncio.run returns and
\* the loop of main.py:182 takes the next listing or ends.
CloseBot ==
    /\ pc = "notify"
    /\ chat_id > Len(chat_ids)
    /\ chat_id' = 0
    /\ IF listing < Len(listings_to_apply)
       THEN pc' = "apply_detail" /\ listing' = listing + 1
       ELSE pc' = "persist" /\ UNCHANGED listing
    /\ UNCHANGED <<known_listings, settings_listings, chat_ids, listings_data,
                   listings_to_apply, cycleHist, applyHist, runHist>>

\* ---- the driver loop (main.py:253-261) ------------------------------------
\* Mutant: the settings are written only after a cycle that logged in.
WriteSettingsAfterLoginOnly ==
    /\ pc = "persist"
    /\ settings_listings' =
          IF loggedIn = "true" THEN known_listings ELSE settings_listings
    /\ pc' = "sleep"
    /\ UNCHANGED <<known_listings, chat_ids, locals, cycleHist, applyHist, runHist>>

\* settings["listings"] = list(known_listings); yaml.dump, main.py:258-260
WriteSettings ==
    /\ pc = "persist"
    /\ settings_listings' = known_listings
    /\ pc' = "sleep"
    /\ UNCHANGED <<known_listings, chat_ids, locals, cycleHist, applyHist, runHist>>

\* time.sleep(600) returns and the loop calls check_for_new_listings again,
\* main.py:261,253-257.  The locals of the last call are gone and the
\* history of the cycle starts afresh.
Sleep ==
    /\ pc = "sleep"
    /\ pc' = "warmup"
    /\ listings_data' = <<>>
    /\ listings_to_apply' = <<>>
    /\ listing' = 0
    /\ chat_id' = 0
    /\ known0' = known_listings
    /\ cycleError' = "none"
    /\ loggedIn' = "none"
    /\ action' = "none"
    /\ success' = "none"
    /\ applyLog' = "none"
    /\ applyRequests' = 0
    /\ loginRequests' = 0
    /\ cycApplied' = NoCounts
    /\ cycSent' = NoSends
    /\ applyErrAt' = 0
    /\ sendErrAt' = <<0, 0>>
    /\ UNCHANGED <<known_listings, settings_listings, chat_ids, runHist>>

Next ==
    \/ GetListingsPage
    \/ GetListingsApi
    \/ GetLoginConfig
    \/ PostLogin
    \/ PostListingDetails
    \/ GetReactionConfig
    \/ PostReaction
    \/ SendMessage
    \/ CloseBot
    \/ WriteSettings
    \/ Sleep

Spec == Init /\ [][Next]_vars

\* The driver is one thread that runs on: every blocking call of main.py (a
\* request, a send_message, the yaml dump, time.sleep(600)) returns or raises
\* one of the exceptions the code handles, so a step that can be taken is
\* taken.
FairSpec == Spec /\ WF_vars(Next)

\* ==== the claims ===========================================================
\* The ids found new in the current cycle.
NewIds == Range(listings_data) \ known0

\* The diff of the current cycle has run (the listings API answered).
DiffDone == pc \notin {"warmup", "api"} /\ cycleError \notin {"warmup", "api"}

\* C1: the known-ID set only grows.  No step of the driver, whatever the
\* outcome of the cycle it belongs to, removes an id from the in-memory known
\* set, so an id known after one cycle is known after every later one.
C1_KnownOnlyGrows == [][known_listings \subseteq known_listings']_vars

\* C1 witness: a cycle whose login request failed has ended with the known
\* set grown, while an id that an earlier cycle of this run applied for is
\* still known.
C1_Witness ==
    /\ pc = "sleep"
    /\ cycleError \in {"login_cfg", "login_post"}
    /\ known0 # known_listings
    /\ \E id \in known0 : applied[id] = 1 /\ id \in known_listings

\* C2: re-fetching a listing never re-triggers apply or notify.  An id that
\* was known when the cycle started gets no apply call and no send_message in
\* the cycle, and over the whole run every id is applied for at most once and
\* sent at most once to every recipient.
C2_NoRetrigger ==
    \A id \in Ids :
       /\ id \in known0 =>
             /\ cycApplied[id] = 0
             /\ \A c \in Chats : cycSent[id][c] = 0
       /\ applied[id] <= 1
       /\ \A c \in Chats : sent[id][c] <= 1

\* C2 witness: a listing applied for and notified in an earlier cycle was
\* fetched again in a cycle that logged in and handled another, new listing.
C2_Witness ==
    /\ pc = "sleep"
    /\ loggedIn = "true"
    /\ Len(chat_ids) > 0
    /\ \E id \in known0 \cap Range(listings_data) :
          applied[id] = 1 /\ sent[id][1] = 1 /\ cycApplied[id] = 0

\* The positions of `data` that hold the first occurrence of an id outside K.
FirstNew(data, K) ==
    {i \in 1..Len(data) :
        data[i] \notin K /\ \A j \in 1..(i - 1) : data[j] # data[i]}

\* sel lists, in order, the entries of data at the positions P.
ListsPositions(sel, data, P) ==
    /\ Len(sel) = Cardinality(P)
    /\ \A k \in 1..Len(sel) :
          sel[k] = data[CHOOSE i \in P : Cardinality({j \in P : j <= i}) = k]

\* C3 as stated: after the diff, listings_to_apply holds exactly the entries
\* of the fetched list whose ids were not known, the known set is K union
\* ids(L), and a second diff of the same list selects nothing.
C3_DiffAsStated ==
    DiffDone =>
       /\ listings_to_apply = SelectSeq(listings_data, LAMBDA x : x \notin known0)
       /\ known_listings = known0 \cup Range(listings_data)
       /\ Diff(known_listings, listings_data).listings_to_apply = <<>>

\* C3 amended: after the diff, listings_to_apply holds, in fetch order, the
\* first occurrence of every id of the fetched list that was not known (an id
\* the list repeats is selected once), the known set is K union ids(L), and a
\* second diff of the same list against the updated set selects nothing.
C3_DiffFirstOccurrences ==
    DiffDone =>
       /\ ListsPositions(listings_to_apply, listings_data,
                         FirstNew(listings_data, known0))
       /\ known_listings = known0 \cup Range(listings_data)
       /\ Diff(known_listings, listings_data).listings_to_apply = <<>>

\* C3 witness: a diff over a list that mixes a known id with new ones.
C3_Witness ==
    /\ DiffDone
    /\ Len(listings_data) >= 2
    /\ Range(listings_data) \cap known0 # {}
    /\ Len(listings_to_apply) >= 1

\* No apply call and no send_message has happened in the current cycle.
NothingDoneInCycle ==
    \A id \in Ids : cycApplied[id] = 0 /\ \A c \in Chats : cycSent[id][c] = 0

\* C4: when a cycle finds new listings and the login answers loggedIn false,
\* the new ids are in the known set all the same and are in the persisted
\* list once the cycle has persisted, no apply call and no send_message
\* happens in the cycle, and the cycle goes straight to persist.
C4_LoginRefused ==
    loggedIn = "false" =>
       /\ NewIds # {}
       /\ NewIds \subseteq known_listings
       /\ pc \in {"persist", "sleep"}
       /\ pc = "sleep" => NewIds \subseteq settings_listings
       /\ NothingDoneInCycle

\* C4 witness: a cycle with a new listing and recipients configured has
\* persisted and sleeps after the login answered loggedIn false.
C4_Witness ==
    /\ pc = "sleep"
    /\ loggedIn = "false"
    /\ NewIds # {}
    /\ Len(chat_ids) > 0

\* C5 as stated: when the login answers loggedIn false the applies are
\* skipped but every new listing of the cycle is still sent to every
\* recipient, so that when the cycle has ended each of them was notified.
C5_NotifiedWhenLoginRefused ==
    (pc = "sleep" /\ loggedIn = "false") =>
       /\ \A id \in Ids : cycApplied[id] = 0
       /\ \A id \in NewIds : \A c \in 1..Len(chat_ids) : cycSent[id][c] >= 1

\* C6: a RequestException of the warm-up GET, the listings API GET, the
\* login-config GET or the login POST aborts the current cycle only.  No
\* apply call and no send_message happens in that cycle, the driver goes on
\* to persist and sleep, and when the sleep ends it starts the next cycle
\* with the warm-up GET, the error forgotten and the known set kept.
C6_AbortsCycleOnly ==
    /\ [](cycleError # "none" =>
             /\ cycleError \in {"warmup", "api", "login_cfg", "login_post"}
             /\ pc \in {"persist", "sleep"}
             /\ NothingDoneInCycle)
    /\ [][cycleError # "none" =>
             \/ pc = "persist" /\ pc' = "sleep" /\ cycleError' = cycleError
             \/ /\ pc = "sleep" /\ pc' = "warmup" /\ cycleError' = "none"
                /\ known_listings' = known_listings]_vars

\* C6 witness: a cycle that found a new listing, with recipients configured,
\* sleeps after its login POST failed; an earlier cycle of the run had applied.
C6_Witness ==
    /\ pc = "sleep"
    /\ cycleError = "login_post"
    /\ NewIds # {}
    /\ Len(chat_ids) > 0
    /\ \E id \in known0 : applied[id] = 1

\* Positions of the apply / notify loop and of the end of the cycle.
LoopPcs == {"apply_detail", "apply_cfg", "apply_post", "notify"}
EndPcs == {"persist", "sleep"}

\* Listing k of listings_to_apply got its one apply call in this cycle.
AppliedOnce(k) == cycApplied[listings_to_apply[k]] = 1

\* Listing k of listings_to_apply was sent once to every entry of chat_ids.
NotifiedAll(k) ==
    \A c \in 1..Len(chat_ids) : cycSent[listings_to_apply[k]][c] = 1

\* The listings the loop has left behind: all of them once the cycle ends.
Finished ==
    IF pc \in EndPcs THEN 1..Len(listings_to_apply)
    ELSE IF pc \in LoopPcs THEN 1..(listing - 1) ELSE {}

\* C7: per-listing isolation.  Once apply_for_new_listing has raised a
\* request error for a listing (at the detail POST, the reaction-config GET
\* or the reaction POST), the cycle is not aborted: the loop goes on, every
\* listing it has left behind, the failed one included, got its apply call
\* and its notification to every recipient, and at the end of the cycle that
\* is true of every new listing.
C7_ApplyErrorIsolated ==
    applyErrAt # 0 =>
       /\ cycleError = "none"
       /\ pc \in LoopPcs \cup EndPcs
       /\ applyErrAt \in (Finished \cup {listing})
       /\ \A k \in Finished : AppliedOnce(k) /\ NotifiedAll(k)

\* C7 witness: the apply of the first of two new listings raised, recipients
\* are configured, and the cycle has ended.
C7_Witness ==
    /\ pc = "sleep"
    /\ applyErrAt = 1
    /\ Len(listings_to_apply) >= 2
    /\ Len(chat_ids) >= 1

\* The send_message calls listing k, recipient c must have got by now.
SendsDue(k, c) ==
    IF /\ c <= Len(chat_ids)
       /\ \/ k \in Finished
          \/ k = listing /\ pc = "notify" /\ c < chat_id
    THEN 1 ELSE 0

\* C8: in a cycle whose login succeeded every new listing gets exactly one
\* send_message per entry of chat_ids, whatever its apply logged: at every
\* moment the sends of the cycle are exactly one for each recipient the loop
\* has passed and none for the others, and no other id is sent.
C8_OneMessagePerRecipient ==
    loggedIn = "true" =>
       /\ \A k \in 1..Len(listings_to_apply) : \A c \in Chats :
             cycSent[listings_to_apply[k]][c] = SendsDue(k, c)
       /\ \A id \in Ids \ Range(listings_to_apply) : \A c \in Chats :
             cycSent[id][c] = 0

\* C8 witness: a cycle with two new listings and two recipients has ended;
\* the first apply raised and the last one found the listing already applied.
C8_Witness ==
    /\ pc = "sleep"
    /\ loggedIn = "true"
    /\ Len(listings_to_apply) >= 2
    /\ Len(chat_ids) >= 2
    /\ applyErrAt = 1
    /\ applyLog = "AlreadyApplied"

\* C9: a failed send_message is contained.  Once a send has raised, the cycle
\* is not aborted and the process does not stop: the loop goes on with the
\* next recipient, the listing whose send failed is sent to every other
\* recipient, every listing the loop has left behind got its apply call and
\* all its sends, and the cycle ends by persisting the known set and sleeping.
C9_SendErrorContained ==
    sendErrAt # <<0, 0>> =>
       /\ cycleError = "none"
       /\ pc \in LoopPcs \cup EndPcs
       /\ sendErrAt[1] \in (Finished \cup {listing})
       /\ sendErrAt[1] = listing /\ pc = "notify" => sendErrAt[2] < chat_id
       /\ \A k \in Finished : AppliedOnce(k) /\ NotifiedAll(k)
       /\ pc = "sleep" => settings_listings = known_listings

\* C9 witness: the first send of the first of two new listings raised, there
\* are two recipients, and the cycle has persisted and sleeps.
C9_Witness ==
    /\ pc = "sleep"
    /\ sendErrAt = <<1, 1>>
    /\ Len(listings_to_apply) >= 2
    /\ Len(chat_ids) >= 2

\* C10: the outcome mapping of apply_for_new_listing.  action "add" and a
\* reaction answer with success true is logged as Applied, action "add" with
\* success false as Failed, both after three requests; any other action is
\* logged as AlreadyApplied and the detail POST stays the only request made
\* for the listing.
C10_OutcomeMapping ==
    /\ (action = "add" /\ success = "true") =>
          applyLog = "Applied" /\ applyRequests = 3
    /\ (action = "add" /\ success = "false") =>
          applyLog = "Failed" /\ applyRequests = 3
    /\ action = "other" =>
          applyLog = "AlreadyApplied" /\ applyRequests = 1 /\ success = "none"

\* C10 witness: the second listing of a cycle was found already applied,
\* after the first one had its apply call; its notification is under way.
C10_Witness ==
    /\ pc = "notify"
    /\ listing = 2
    /\ action = "other"
    /\ applyLog = "AlreadyApplied"
    /\ applied[listings_to_apply[1]] = 1

\* C11: login is attempted only in cycles that found a new listing.  A cycle
\* whose fetched listings were all known issues no login-config request and
\* no login request, makes no apply call and no send_message, leaves the
\* known set as it was and goes straight to persist; conversely a login
\* request in a cycle means the diff of that cycle selected a listing.
C11_LoginOnlyWhenNew ==
    /\ (DiffDone /\ NewIds = {}) =>
          /\ loginRequests = 0
          /\ loggedIn = "none"
          /\ NothingDoneInCycle
          /\ known_listings = known0
          /\ pc \in EndPcs
    /\ (loginRequests > 0 \/ pc \in {"login_cfg", "login_post"}) =>
          Len(listings_to_apply) > 0 /\ NewIds # {}

\* C11 witness: a cycle that fetched a non-empty list of known listings only,
\* one of them applied for earlier in the run, has ended.
C11_Witness ==
    /\ pc = "sleep"
    /\ DiffDone
    /\ Len(listings_data) >= 1
    /\ NewIds = {}
    /\ \E id \in Range(listings_data) : applied[id] = 1

\* C12: the state is persisted after every cycle, before the sleep.  While
\* the driver sleeps the persisted listings equal the in-memory known set,
\* whatever the cycle was (nothing new, aborted by a fetch or login error,
\* login refused, listings handled); at every moment the persisted listings
\* are a subset of the known set.
C12_PersistedAfterCycle ==
    /\ pc = "sleep" => settings_listings = known_listings
    /\ settings_listings \subseteq known_listings

\* C12 witness: the driver sleeps after a cycle that found new ids and was
\* aborted by a failed login POST; the new ids are in the persisted list.
C12_Witness ==
    /\ pc = "sleep"
    /\ cycleError = "login_post"
    /\ known0 # known_listings
    /\ settings_listings # known0

\* C13: the driver loop runs indefinitely.  From every state, whatever the
\* cycle's outcome (nothing new, a fetch error, a login error or loggedIn
\* false, apply errors, send errors), the driver reaches persist, then the
\* sleep, then the start of the next cycle, and the warm-up GET of a new
\* fetch is issued again and again; no position is terminal.
C13_RunsForever ==
    /\ (pc # "persist") ~> (pc = "persist")
    /\ (pc = "persist") ~> (pc = "sleep")
    /\ (pc = "sleep") ~> (pc = "warmup")
    /\ []<><<GetListingsPage>>_vars

\* C13 witness: the listings page of a further cycle has been fetched after
\* a cycle that applied for a listing and a cycle whose new id was skipped.
C13_Witness ==
    /\ pc = "api"
    /\ \E id \in known0 : applied[id] = 1
    /\ \E id \in known0 : applied[id] = 0 /\ id \in settings_listings

\* C14: a failed listings fetch skips the cycle with no effect.  After a
\* failed warm-up GET no listings API request is made; after a failure of
\* either fetch request the known set is the one the cycle started with,
\* nothing was fetched or selected, no login request, no apply call and no
\* send_message is issued, and the cycle goes to persist.
C14_FetchFailureNoEffect ==
    /\ [](cycleError \in {"warmup", "api"} =>
             /\ known_listings = known0
             /\ listings_data = <<>>
             /\ listings_to_apply = <<>>
             /\ loginRequests = 0
             /\ loggedIn = "none"
             /\ NothingDoneInCycle
             /\ pc \in EndPcs)
    /\ [][cycleError = "warmup" => ~GetListingsApi]_vars
    /\ [][cycleError' = "warmup" /\ cycleError = "none" => pc = "warmup"]_vars

\* C14 witness: a cycle whose warm-up GET failed has ended, with ids known
\* and an id not yet known that a fetch could have found.
C14_Witness ==
    /\ pc = "sleep"
    /\ cycleError = "warmup"
    /\ known0 # {}
    /\ known_listings # Ids

\* Position in listings_data of the first entry with this id.
FirstPos(id) ==
    CHOOSE i \in 1..Len(listings_data) :
       listings_data[i] = id /\ \A j \in 1..(i - 1) : listings_data[j] # id

\* C15: in a cycle whose login succeeded the new listings are handled one at
\* a time in fetch-result order.  listings_to_apply follows the order of the
\* fetched list; a listing has its apply call exactly when the loop has
\* reached it; a send_message for a listing happens only once its apply has
\* returned; the loop moves to the next listing's apply only from the end of
\* the recipient loop, so every listing behind the loop was sent to every
\* recipient.  Cycles do not overlap: a cycle starts only from the sleep,
\* and until its login nothing is applied for or sent.
C15_OneAtATime ==
    /\ [](loggedIn = "true" =>
             \A k \in 1..Len(listings_to_apply) :
                /\ cycApplied[listings_to_apply[k]] =
                      IF \/ k \in Finished
                         \/ k = listing /\ pc \in {"apply_cfg", "apply_post", "notify"}
                      THEN 1 ELSE 0
                /\ (\E c \in Chats : cycSent[listings_to_apply[k]][c] > 0) =>
                      (k \in Finished \/ (k = listing /\ pc = "notify"))
                /\ k \in Finished => NotifiedAll(k)
                /\ \A j \in (k + 1)..Len(listings_to_apply) :
                      FirstPos(listings_to_apply[k]) < FirstPos(listings_to_apply[j]))
    /\ [](pc \in {"warmup", "api", "login_cfg", "login_post"} =>
             NothingDoneInCycle /\ listing = 0 /\ chat_id = 0)
    /\ [][pc' = "apply_detail" /\ pc # "apply_detail" =>
             \/ pc = "login_post" /\ listing' = 1
             \/ pc = "notify" /\ chat_id > Len(chat_ids) /\ listing' = listing + 1]_vars
    /\ [][pc' = "warmup" /\ pc # "warmup" => pc = "sleep"]_vars

\* C15 witness: the apply of the second listing is about to start; the first
\* listing, first in the fetched list too, was sent to both recipients.
C15_Witness ==
    /\ pc = "apply_detail"
    /\ listing = 2
    /\ Len(chat_ids) = 2
    /\ NotifiedAll(1)
    /\ listings_data[1] = listings_to_apply[1]

\* The login-config GET or the login POST of the cycle failed.
LoginFailed == cycleError \in {"login_cfg", "login_post"}

\* The id is known and was never applied for nor sent in this run, and it is
\* past the diff that could select it: it was known when the cycle started,
\* or the cycle that found it was aborted by a login error.
Skipped(id) ==
    /\ id \in known_listings
    /\ id \in known0 \/ LoginFailed
    /\ applied[id] = 0
    /\ \A c \in Chats : sent[id][c] = 0

\* C16: the new ids are added to the known set before the login is
\* attempted.  When the login-config GET or the login POST fails, the ids
\* found in that cycle are in the known set and, once persisted, in the
\* persisted list; nothing is applied for or sent in that cycle; and such an
\* id stays known, unapplied and unsent in every later step of the run.
C16_LoginErrorSkipsForGood ==
    /\ [](LoginFailed =>
             /\ NewIds # {}
             /\ NothingDoneInCycle
             /\ \A id \in NewIds : Skipped(id)
             /\ pc = "sleep" => NewIds \subseteq settings_listings)
    /\ [][\A id \in Ids : Skipped(id) => Skipped(id)']_vars

\* C16 witness: a cycle that found a new id, with a recipient configured,
\* sleeps after its login-config GET failed; the fetched list also held an
\* id that was known and never applied for.
C16_Witness ==
    /\ pc = "sleep"
    /\ cycleError = "login_cfg"
    /\ NewIds # {}
    /\ Len(chat_ids) > 0
    /\ \E id \in known0 \cap Range(listings_data) : applied[id] = 0

\* C17: when a fetch result holds the same id more than once, only its first
\* occurrence is selected.  listings_to_apply never holds an id twice, it
\* holds every new id, and in a cycle that logged in each new id has got one
\* apply call and one send_message per recipient when the cycle ends, and
\* never more than one.
C17_DuplicateSelectedOnce ==
    /\ \A i, j \in 1..Len(listings_to_apply) :
          i # j => listings_to_apply[i] # listings_to_apply[j]
    /\ DiffDone => Range(listings_to_apply) = NewIds
    /\ \A id \in Ids :
          cycApplied[id] <= 1 /\ \A c \in Chats : cycSent[id][c] <= 1
    /\ (loggedIn = "true" /\ pc \in EndPcs) =>
          \A id \in NewIds :
             /\ cycApplied[id] = 1
             /\ \A c \in 1..Len(chat_ids) : cycSent[id][c] = 1

\* C17 witness: a cycle that fetched the same new id twice and logged in has
\* ended; one listing was selected, with a recipient configured.
C17_Witness ==
    /\ pc = "sleep"
    /\ loggedIn = "true"
    /\ Len(listings_data) = 2
    /\ listings_data[1] = listings_data[2]
    /\ Len(listings_to_apply) = 1
    /\ Len(chat_ids) >= 1

====
